---- MODULE Spec2Model ----
(***************************************************************************)
(* Model of Snake_Game.py: the Snake and Apple objects and the main loop.  *)
(* One action per statement group of main(): clock.tick, each round of the *)
(* event loop of handle_keys, snake.move, the apple check, the             *)
(* self-collision check and the render.                                    *)
(***************************************************************************)
EXTENDS Integers, Sequences, FiniteSets, TLC

\* ---------------------------------------------------------------- bounds
\* number of loop iterations explored
MaxTicks == 6
\* longest event list one pygame.event.get() returns
MaxEvents == 2
\* number of middle values randint is sampled at (besides both extremes)
FoodSpan == 2

\* ------------------------------------------------------------- constants
SCREEN_WIDTH == 640
SCREEN_HEIGHT == 480
GRID_SIZE == 20
GRID_WIDTH == SCREEN_WIDTH \div GRID_SIZE
GRID_HEIGHT == SCREEN_HEIGHT \div GRID_SIZE

UP == <<0, -1>>
DOWN == <<0, 1>>
LEFT == <<-1, 0>>
RIGHT == <<1, 0>>

\* Python's None (also the only falsy value next_direction can hold)
None == <<>>

\* the events handle_keys distinguishes; OTHER is any event it ignores
EventKinds == {"QUIT", "K_UP", "K_DOWN", "K_LEFT", "K_RIGHT", "OTHER"}

\* the value of the loop variable `event` outside the loop of handle_keys
NoEvent == "-"

VARIABLES
    positions,       \* snake.positions, head first
    length,          \* snake.length
    direction,       \* snake.direction
    next_direction,  \* snake.next_direction
    apple_position,  \* apple.position
    pc,              \* the statement of main() that runs next
    event,           \* the event the loop of handle_keys dispatched last
    handled,         \* events handle_keys has dispatched in this iteration
    calls,           \* the calls main() has made in the current iteration
    drawn,           \* draw_cell commands of the last rendered frame
    ticks            \* iterations explored so far

vars == <<positions, length, direction, next_direction, apple_position,
          pc, event, handled, calls, drawn, ticks>>

\* ------------------------------------------------------------ GameObject
\* Snake.__init__ passes this to GameObject.__init__ as self.position
snake_position == <<(GRID_WIDTH \div 2) * GRID_SIZE, (GRID_HEIGHT \div 2) * GRID_SIZE>>

\* ----------------------------------------------------------------- Apple
\* the values of randint(lo, hi) the model draws: both extremes and
\* FoodSpan values from the middle of the range on
RandInt(lo, hi) ==
    LET mid == (lo + hi + 1) \div 2
    IN  {n \in lo..hi : n = lo \/ n = hi \/ (n >= mid /\ n < mid + FoodSpan)}

\* the positions Apple.randomize_position may assign
randomize_position ==
    {<<i * GRID_SIZE, j * GRID_SIZE>> :
        i \in RandInt(0, GRID_WIDTH - 1), j \in RandInt(0, GRID_HEIGHT - 1)}

\* Apple.draw: one draw_cell at the apple's position
AppleDraw(pos) == <<[obj |-> "apple", position |-> pos]>>

\* ----------------------------------------------------------------- Snake
Neg(d) == <<d[1] * (-1), d[2] * (-1)>>

\* update_direction without the reversal test
update_directionAlways(dir, nd, new_direction) == new_direction

\* update_direction testing against the pending direction instead
update_directionPending(dir, nd, new_direction) ==
    IF new_direction # Neg(IF nd # None THEN nd ELSE dir) THEN new_direction ELSE nd

\* update_direction refusing the direction already held, not its opposite
update_directionSame(dir, nd, new_direction) ==
    IF new_direction # dir THEN new_direction ELSE nd

\* Snake.update_direction: the value of next_direction after the call
update_direction(dir, nd, new_direction) ==
    IF new_direction # Neg(dir) THEN new_direction ELSE nd

\* move that never commits the pending direction
MoveDirectionKeep(dir, nd) == dir

\* Snake.move, first part: commit the pending direction
MoveDirection(dir, nd) == IF nd # None THEN nd ELSE dir

\* the new head without the wraparound
NewHeadNoWrap(cur_head, dir) ==
    <<cur_head[1] + dir[1] * GRID_SIZE, cur_head[2] + dir[2] * GRID_SIZE>>

\* the new head one pixel on instead of one cell
NewHeadPixel(cur_head, dir) ==
    <<(cur_head[1] + dir[1]) % SCREEN_WIDTH, (cur_head[2] + dir[2]) % SCREEN_HEIGHT>>

\* the new head with both coordinates taken modulo the grid width in cells
NewHeadGridMod(cur_head, dir) ==
    <<(cur_head[1] + dir[1] * GRID_SIZE) % GRID_WIDTH,
      (cur_head[2] + dir[2] * GRID_SIZE) % GRID_WIDTH>>

\* the new head with the two moduli swapped
NewHeadSwapped(cur_head, dir) ==
    <<(cur_head[1] + dir[1] * GRID_SIZE) % SCREEN_HEIGHT,
      (cur_head[2] + dir[2] * GRID_SIZE) % SCREEN_WIDTH>>

\* Snake.move: the new head
NewHead(cur_head, dir) ==
    <<(cur_head[1] + dir[1] * GRID_SIZE) % SCREEN_WIDTH,
      (cur_head[2] + dir[2] * GRID_SIZE) % SCREEN_HEIGHT>>

\* move popping the tail when len(positions) >= length
MovePositionsGe(ps, len, dir) ==
    LET ins == <<NewHead(ps[1], dir)>> \o ps
    IN  IF Len(ins) >= len THEN SubSeq(ins, 1, Len(ins) - 1) ELSE ins

\* Snake.move: insert the head, pop the tail when longer than length
MovePositions(ps, len, dir) ==
    LET ins == <<NewHead(ps[1], dir)>> \o ps
    IN  IF Len(ins) > len THEN SubSeq(ins, 1, Len(ins) - 1) ELSE ins

\* the last segment instead of the head
get_tail_position(ps) == ps[Len(ps)]

\* Snake.get_head_position
get_head_position(ps) == ps[1]

\* Snake.draw: draw_cell for positions[:-1], then for the head
SnakeDraw(ps) ==
    [i \in 1..Len(ps) |->
        [obj |-> "snake",
         position |-> IF i < Len(ps) THEN ps[i] ELSE ps[1]]]

\* ----------------------------------------------------------- handle_keys
KeyDirection(e) ==
    CASE e = "K_UP" -> UP
      [] e = "K_DOWN" -> DOWN
      [] e = "K_LEFT" -> LEFT
      [] e = "K_RIGHT" -> RIGHT
      [] OTHER -> None

Range(f) == {f[i] : i \in DOMAIN f}

\* the self-collision test over the whole of positions
SelfCollisionFromHead(ps) ==
    Len(ps) > 2 /\ \E i \in 1..Len(ps) : ps[i] = get_head_position(ps)

\* the self-collision test over positions[4:]
SelfCollisionLate(ps) ==
    Len(ps) > 2 /\ \E i \in 5..Len(ps) : ps[i] = get_head_position(ps)

\* no self-collision test at all
SelfCollisionNever(ps) == FALSE

\* main()'s self-collision test
SelfCollision(ps) ==
    Len(ps) > 2 /\ \E i \in 3..Len(ps) : ps[i] = get_head_position(ps)

\* ------------------------------------------------------------------ main
\* snake = Snake(); apple = Apple()
Init ==
    /\ positions = <<snake_position>>
    /\ length = 1
    /\ direction = RIGHT
    /\ next_direction = None
    /\ apple_position \in randomize_position
    /\ pc = "tick"
    /\ event = NoEvent
    /\ handled = 0
    /\ calls = <<>>
    /\ drawn = <<>>
    /\ ticks = 0

\* clock.tick(SPEED): a new iteration starts
ClockTick ==
    /\ pc = "tick"
    /\ ticks < MaxTicks
    /\ ticks' = ticks + 1
    /\ calls' = <<"tick">>
    /\ handled' = 0
    /\ pc' = "keys"
    /\ UNCHANGED <<positions, length, direction, next_direction,
                   apple_position, event, drawn>>

\* handle_keys, one round of `for event in pygame.event.get()` on a KEYDOWN
\* of an arrow key: snake.update_direction
KeyDown ==
    /\ pc = "keys"
    /\ handled < MaxEvents
    /\ \E e \in {"K_UP", "K_DOWN", "K_LEFT", "K_RIGHT"} :
        /\ event' = e
        /\ next_direction' = update_direction(direction, next_direction, KeyDirection(e))
    /\ handled' = handled + 1
    /\ UNCHANGED <<positions, length, direction, apple_position, pc, calls, drawn, ticks>>

\* handle_keys, one round of the loop on an event it has no branch for
OtherEvent ==
    /\ pc = "keys"
    /\ handled < MaxEvents
    /\ event' = "OTHER"
    /\ handled' = handled + 1
    /\ UNCHANGED <<positions, length, direction, next_direction, apple_position,
                   pc, calls, drawn, ticks>>

\* QUIT taken for one more event without a branch
QuitIgnored ==
    /\ pc = "keys"
    /\ handled < MaxEvents
    /\ event' = "QUIT"
    /\ handled' = handled + 1
    /\ UNCHANGED <<positions, length, direction, next_direction, apple_position,
                   pc, calls, drawn, ticks>>

\* handle_keys, one round of the loop on QUIT: pygame.quit(); raise SystemExit
Quit ==
    /\ pc = "keys"
    /\ handled < MaxEvents
    /\ event' = "QUIT"
    /\ handled' = handled + 1
    /\ calls' = Append(calls, "handle_keys")
    /\ pc' = "exit"
    /\ UNCHANGED <<positions, length, direction, next_direction, apple_position,
                   drawn, ticks>>

\* handle_keys: the event list is exhausted, the call returns
KeysDone ==
    /\ pc = "keys"
    /\ event' = NoEvent
    /\ calls' = Append(calls, "handle_keys")
    /\ pc' = "move"
    /\ UNCHANGED <<positions, length, direction, next_direction, apple_position,
                   handled, drawn, ticks>>

\* main() going from move straight to the collision check
MoveSkipEat ==
    /\ pc = "move"
    /\ direction' = MoveDirection(direction, next_direction)
    /\ next_direction' = None
    /\ positions' = MovePositions(positions, length, direction')
    /\ calls' = Append(calls, "move")
    /\ pc' = "collide"
    /\ UNCHANGED <<length, apple_position, event, handled, drawn, ticks>>

\* snake.move()
Move ==
    /\ pc = "move"
    /\ direction' = MoveDirection(direction, next_direction)
    /\ next_direction' = None
    /\ positions' = MovePositions(positions, length, direction')
    /\ calls' = Append(calls, "move")
    /\ pc' = "eat"
    /\ UNCHANGED <<length, apple_position, event, handled, drawn, ticks>>

\* the collision check as an elif of the apple check: skipped after eating
EatCheckElif ==
    /\ pc = "eat"
    /\ IF get_head_position(positions) = apple_position
       THEN /\ length' = length + 1
            /\ apple_position' \in randomize_position
            /\ calls' = calls \o <<"eat_check", "randomize_position", "collision_check">>
            /\ pc' = "draw"
       ELSE /\ UNCHANGED <<length, apple_position>>
            /\ calls' = Append(calls, "eat_check")
            /\ pc' = "collide"
    /\ UNCHANGED <<positions, direction, next_direction, event, handled, drawn, ticks>>

\* if snake.get_head_position() == apple.position: grow and move the apple
EatCheck ==
    /\ pc = "eat"
    /\ IF get_head_position(positions) = apple_position
       THEN /\ length' = length + 1
            /\ apple_position' \in randomize_position
            /\ calls' = calls \o <<"eat_check", "randomize_position">>
       ELSE /\ UNCHANGED <<length, apple_position>>
            /\ calls' = Append(calls, "eat_check")
    /\ pc' = "collide"
    /\ UNCHANGED <<positions, direction, next_direction, event, handled, drawn, ticks>>

\* reset that leaves length as it was
ResetKeepLength ==
    /\ length' = length
    /\ positions' = <<snake_position>>
    /\ direction' = RIGHT
    /\ next_direction' = None

\* reset that keeps the direction of travel
ResetKeepDirection ==
    /\ length' = 1
    /\ positions' = <<snake_position>>
    /\ direction' = direction
    /\ next_direction' = None

\* Snake.reset
Reset ==
    /\ length' = 1
    /\ positions' = <<snake_position>>
    /\ direction' = RIGHT
    /\ next_direction' = None

\* if the head is in positions[2:]: snake.reset()
CollisionCheck ==
    /\ pc = "collide"
    /\ IF SelfCollision(positions)
       THEN /\ Reset
            /\ calls' = calls \o <<"collision_check", "reset">>
       ELSE /\ UNCHANGED <<positions, length, direction, next_direction>>
            /\ calls' = Append(calls, "collision_check")
    /\ pc' = "draw"
    /\ UNCHANGED <<apple_position, event, handled, drawn, ticks>>

\* screen.fill; snake.draw; apple.draw; display.update
Draw ==
    /\ pc = "draw"
    /\ drawn' = SnakeDraw(positions) \o AppleDraw(apple_position)
    /\ calls' = Append(calls, "draw")
    /\ pc' = "tick"
    /\ UNCHANGED <<positions, length, direction, next_direction,
                   apple_position, event, handled, ticks>>

Next ==
    \/ ClockTick
    \/ KeyDown
    \/ OtherEvent
    \/ Quit
    \/ KeysDone
    \/ Move
    \/ EatCheck
    \/ CollisionCheck
    \/ Draw

Spec == Init /\ [][Next]_vars

\* ------------------------------------------------- the game later in play
\* cells sampled over the whole board: both edges and the middle, per axis
SampleCells ==
    {<<i * GRID_SIZE, j * GRID_SIZE>> :
        i \in RandInt(0, GRID_WIDTH - 1), j \in RandInt(0, GRID_HEIGHT - 1)}

Directions == {UP, DOWN, LEFT, RIGHT}

\* iterations explored from a state of InitAnywhere
MaxTicksAnywhere == 2

\* the loop at the end of an uneventful iteration, with a snake of length 1
\* that has walked to some cell and heads any way
InitAnywhere ==
    /\ positions \in {<<c>> : c \in SampleCells}
    /\ length = 1
    /\ direction \in Directions
    /\ next_direction = None
    /\ apple_position \in randomize_position
    /\ pc = "tick"
    /\ event = NoEvent
    /\ handled = 0
    /\ calls = <<"tick", "handle_keys", "move", "eat_check", "collision_check", "draw">>
    /\ drawn = SnakeDraw(positions) \o AppleDraw(apple_position)
    /\ ticks = MaxTicks - MaxTicksAnywhere

\* the game from its construction and from the states of InitAnywhere
SpecAnywhere == (Init \/ InitAnywhere) /\ [][Next]_vars

\* ------------------------------------------------ the game with no input
\* the loop when pygame.event.get() returns the empty list in every tick
NextIdle ==
    \/ ClockTick
    \/ KeysDone
    \/ Move
    \/ EatCheck
    \/ CollisionCheck
    \/ Draw

SpecIdle == Init /\ [][NextIdle]_vars

\* ================================================================ claims
InBounds(p) ==
    /\ 0 <= p[1] /\ p[1] < 640
    /\ 0 <= p[2] /\ p[2] < 480

\* the calls of the iteration without the two conditional ones
MainCalls == SelectSeq(calls, LAMBDA c : c \notin {"randomize_position", "reset"})

IsPrefix(a, b) == Len(a) <= Len(b) /\ \A i \in 1..Len(a) : a[i] = b[i]

LoopOrder == <<"tick", "handle_keys", "move", "eat_check", "collision_check", "draw">>

\* C1: in every reachable state every snake segment and the apple lie
\* inside the board: 0 <= x < 640 and 0 <= y < 480.
C1_InBounds ==
    /\ \A i \in 1..Len(positions) : InBounds(positions[i])
    /\ InBounds(apple_position)

\* C1 witness: the snake has just moved LEFT across the left edge and its
\* head re-entered at x = 620
C1_Witness ==
    /\ pc = "eat"
    /\ direction = LEFT
    /\ positions[1][1] = 620

\* C2: the direction move() commits in a tick is never the opposite of the
\* direction the snake held when the tick started, whatever keys were
\* drained in between (handle_keys itself leaves direction alone).
C2_NoReversal ==
    [][/\ (pc \in {"tick", "keys"} => direction' = direction)
       /\ (pc = "move" => direction' # <<-direction[1], -direction[2]>>)]_vars

\* C2 witness: in the first tick (the snake started heading RIGHT) two keys
\* were drained, and move() committed UP
C2_Witness ==
    /\ pc = "eat"
    /\ ticks = 1
    /\ handled = 2
    /\ direction = UP
    /\ positions = <<<<320, 220>>>>

\* C3: update_direction with the opposite of the current direction leaves
\* next_direction as it was (None or an earlier accepted direction) and
\* with any other direction sets it; no other snake field changes.
C3_UpdateDirection ==
    [][(pc = "keys" /\ event' \in {"K_UP", "K_DOWN", "K_LEFT", "K_RIGHT"}) =>
          LET d == CASE event' = "K_UP" -> <<0, -1>>
                     [] event' = "K_DOWN" -> <<0, 1>>
                     [] event' = "K_LEFT" -> <<-1, 0>>
                     [] event' = "K_RIGHT" -> <<1, 0>>
          IN  /\ next_direction' =
                    IF d[1] = -direction[1] /\ d[2] = -direction[2]
                    THEN next_direction ELSE d
              /\ UNCHANGED <<positions, length, direction>>]_vars

\* C3 witness: heading RIGHT with UP already pending, K_LEFT (the opposite
\* of RIGHT) was dispatched and left the pending UP in place
C3_Witness ==
    /\ pc = "keys"
    /\ direction = RIGHT
    /\ handled = 2
    /\ event = "K_LEFT"
    /\ next_direction = UP

\* C4: right after every move() (before the apple check)
\* len(positions) = length.
C4_LengthAfterMove == pc = "eat" => Len(positions) = length

\* C4 witness: the move() of the tick after an apple was eaten kept the
\* tail, so the snake now has its two segments
C4_Witness ==
    /\ pc = "eat"
    /\ length = 2
    /\ Len(positions) = 2

\* C5: at the end of every tick in which the self-collision was detected
\* the snake is in its initial state: length 1, positions = [(320, 240)],
\* direction RIGHT, next_direction None.
C5_ResetInitial ==
    (pc \in {"draw", "tick"} /\ "reset" \in Range(calls)) =>
        /\ length = 1
        /\ positions = <<<<320, 240>>>>
        /\ direction = RIGHT
        /\ next_direction = None

\* C5 witness: a tick has ended in which reset() ran
C5_Witness ==
    /\ pc = "tick"
    /\ "reset" \in Range(calls)
    /\ "draw" \in Range(calls)

\* a cell of the 32 x 24 grid, in pixels
GridCell(p) ==
    /\ p[1] \in {20 * i : i \in 0..31}
    /\ p[2] \in {20 * j : j \in 0..23}

\* C6: when the head equals the apple position after move(), the apple
\* check adds exactly 1 to length and calls randomize_position in the same
\* tick; when the head differs, it changes neither length nor the apple.
C6_EatCheck ==
    [][pc = "eat" =>
          IF positions[1] = apple_position
          THEN /\ length' = length + 1
               /\ calls' = calls \o <<"eat_check", "randomize_position">>
               /\ GridCell(apple_position')
               /\ pc' = "collide"
          ELSE /\ length' = length
               /\ apple_position' = apple_position
               /\ "randomize_position" \notin Range(calls')]_vars

\* C6 witness: a snake of two segments has eaten its second apple and the
\* apple has gone to another cell
C6_Witness ==
    /\ pc = "collide"
    /\ "randomize_position" \in Range(calls)
    /\ Len(positions) = 2
    /\ length = 3
    /\ apple_position # positions[1]

\* C7: after the initial placement and after every randomize_position the
\* apple is on no cell of the snake.
C7_AppleOffSnake ==
    ((pc = "tick" /\ ticks = 0) \/ (pc = "collide" /\ "randomize_position" \in Range(calls)))
        => \A i \in 1..Len(positions) : positions[i] # apple_position

\* C8: every tick that does not quit runs, once each and in this order,
\* handle_keys, move(), the apple check and the collision check (then the
\* render); both checks read the head that tick's move() produced.
C8_TickOrder ==
    [][/\ IsPrefix(MainCalls', LoopOrder)
       /\ ((pc' = "tick" /\ ticks' > 0) => MainCalls' = LoopOrder)
       /\ (pc = "eat" => (positions' = positions /\ pc' = "collide"))
       /\ ((pc = "collide" /\ ~SelfCollision(positions)) => positions' = positions)]_vars

\* C8 witness: a tick in which the apple was eaten and the snake reset has
\* run all its steps
C8_Witness ==
    /\ pc = "tick"
    /\ calls = <<"tick", "handle_keys", "move", "eat_check", "randomize_position",
                 "collision_check", "reset", "draw">>

\* C9: a QUIT met while draining ends the loop in that tick: no move(), no
\* apple check and no collision check runs then or later, positions, length
\* and the apple stay as they were, and direction keys queued behind the
\* QUIT are not applied.
C9_Quit ==
    [][/\ pc # "exit"
       /\ (pc = "keys" /\ event' = "QUIT") =>
            /\ pc' = "exit"
            /\ UNCHANGED <<positions, length, apple_position, direction, next_direction>>
            /\ "move" \notin Range(calls')]_vars

\* C9 witness: the loop has ended on a QUIT drained behind an accepted
\* K_UP; UP is still pending and the snake has not moved
C9_Witness ==
    /\ pc = "exit"
    /\ event = "QUIT"
    /\ handled = 2
    /\ next_direction = UP
    /\ calls = <<"tick", "handle_keys">>

\* the number of draw_cell commands of the frame for object obj at cell p
DrawCount(obj, p) ==
    Cardinality({k \in 1..Len(drawn) : drawn[k].obj = obj /\ drawn[k].position = p})

\* C10: the render of every tick issues draw_cell exactly once for every
\* segment of positions (the last one included) and exactly once for the
\* apple cell.
C10_DrawAll ==
    (pc = "tick" /\ "draw" \in Range(calls)) =>
        /\ \A i \in 1..Len(positions) : DrawCount("snake", positions[i]) = 1
        /\ DrawCount("apple", apple_position) = 1
        /\ Len(drawn) = Len(positions) + 1

\* C11: from the constructed state, after k = 1, 2, 3 ticks with no input
\* and no apple eaten, positions is the single cell (16 + k, 12), in pixels
\* (320 + 20k, 240), and length is still 1.  (With no input the snake never
\* turns, so length = 1 at the apple check of tick k says that no apple was
\* eaten in the ticks before.)
C11_ThreeTicks ==
    [][(pc = "eat" /\ ticks \in 1..3 /\ length = 1 /\ positions[1] # apple_position) =>
          /\ length' = 1
          /\ positions' = <<<<320 + 20 * ticks, 240>>>>]_vars

\* C11 witness: the third tick has ended with nothing eaten and the snake
\* on cell (19, 12)
C11_Witness ==
    /\ pc = "tick"
    /\ ticks = 3
    /\ handled = 0
    /\ length = 1
    /\ positions = <<<<380, 240>>>>

\* C12: a tick calls reset() exactly when, after its move() and apple check,
\* the head equals positions[i] for some i >= 2 (0-based); the head being
\* positions[0], or equal to positions[1], never counts, and a snake of at
\* most two segments never resets.
C12_ResetIff ==
    [][pc = "collide" =>
          /\ ("reset" \in Range(calls')) <=>
                (\E i \in 3..Len(positions) : positions[i] = positions[1])
          /\ (Len(positions) <= 2 => "reset" \notin Range(calls'))]_vars

\* C12 witness: the collision check has just reset a snake
C12_Witness ==
    /\ pc = "draw"
    /\ calls[Len(calls)] = "reset"
    /\ positions = <<<<320, 240>>>>

\* C13: move() puts ((hx + dx*20) mod 640, (hy + dy*20) mod 480) in front
\* of positions: RIGHT from x = 620 gives 0, LEFT from 0 gives 620, DOWN
\* from y = 460 gives 0, UP from 0 gives 460, the other coordinate is kept.
C13_NewHead ==
    [][pc = "move" =>
          LET hx == positions[1][1]
              hy == positions[1][2]
          IN  /\ direction' = <<1, 0>> =>
                    positions'[1] = <<IF hx = 620 THEN 0 ELSE hx + 20, hy>>
              /\ direction' = <<-1, 0>> =>
                    positions'[1] = <<IF hx = 0 THEN 620 ELSE hx - 20, hy>>
              /\ direction' = <<0, 1>> =>
                    positions'[1] = <<hx, IF hy = 460 THEN 0 ELSE hy + 20>>
              /\ direction' = <<0, -1>> =>
                    positions'[1] = <<hx, IF hy = 0 THEN 460 ELSE hy - 20>>
              /\ direction' \in {<<1, 0>>, <<-1, 0>>, <<0, 1>>, <<0, -1>>}]_vars

\* C13 witness: the snake has just moved DOWN from the bottom row and its
\* head re-entered at y = 0
C13_Witness ==
    /\ pc = "eat"
    /\ direction = DOWN
    /\ positions[1][2] = 0
    /\ handled > 0

\* C14: after every move() next_direction is None, and the direction of
\* the move is the pending direction held just before it when one was set
\* and the previous direction otherwise; so a pending direction serves
\* exactly one move and is never carried into a later tick.
C14_PendingConsumed ==
    [][/\ pc = "move" =>
            /\ next_direction' = <<>>
            /\ direction' = IF next_direction = <<>> THEN direction ELSE next_direction
            /\ positions'[1] =
                  <<(positions[1][1] + 20 * direction'[1]) % 640,
                    (positions[1][2] + 20 * direction'[2]) % 480>>
       /\ (pc' \in {"eat", "collide", "draw", "tick"} => next_direction' = <<>>)
       /\ (pc = "tick" => next_direction' = <<>>)]_vars

\* C14 witness: in the first tick one key set DOWN pending and move() has
\* used it: the snake is one cell below the centre, nothing is pending
C14_Witness ==
    /\ pc = "eat"
    /\ ticks = 1
    /\ handled = 1
    /\ direction = DOWN
    /\ next_direction = None
    /\ positions[1] = <<320, 260>>

\* C15: at the end of every tick (after the collision check and any
\* reset) the cells of positions are pairwise distinct.
C15_Distinct ==
    pc \in {"draw", "tick"} =>
        \A i, j \in 1..Len(positions) : i # j => positions[i] # positions[j]

\* C15 witness: a tick has ended with a snake of five segments
C15_Witness ==
    /\ pc = "tick"
    /\ Len(positions) = 5
    /\ "reset" \notin Range(calls)

\* C16: on the 32 x 24 grid a snake of at most four segments after move()
\* never has its head in positions[2:], whatever was input.
C16_NoShortCollision ==
    (pc \in {"eat", "collide"} /\ Len(positions) <= 4) =>
        \A i \in 3..Len(positions) : positions[i] # positions[1]

\* C16 witness: a snake of four segments coiled into a 2 x 2 square, the
\* head next to the tail, is at the collision check
C16_Witness ==
    /\ pc = "collide"
    /\ Len(positions) = 4
    /\ positions[1][1] = positions[4][1]
    /\ positions[1][2] # positions[4][2]
    /\ positions[2][1] = positions[3][1]

\* C17: when the head lands on a cell that is both the apple and a body
\* cell of index >= 2, both checks fire in order: length goes up by 1 and
\* the apple is repositioned, then reset() runs; the tick ends with
\* length 1 and positions = [(320, 240)], the growth gone, the apple moved.
C17_EatThenReset ==
    [][/\ (pc = "eat" /\ positions[1] = apple_position
            /\ \E i \in 3..Len(positions) : positions[i] = positions[1]) =>
            /\ length' = length + 1
            /\ calls' = calls \o <<"eat_check", "randomize_position">>
            /\ positions' = positions
            /\ pc' = "collide"
       /\ (pc = "collide" /\ "randomize_position" \in Range(calls)
            /\ \E i \in 3..Len(positions) : positions[i] = positions[1]) =>
            /\ calls' = calls \o <<"collision_check", "reset">>
            /\ length' = 1
            /\ positions' = <<<<320, 240>>>>
            /\ apple_position' = apple_position
            /\ pc' = "draw"
       /\ (pc = "draw" /\ "randomize_position" \in Range(calls) /\ "reset" \in Range(calls)) =>
            /\ length' = 1
            /\ positions' = <<<<320, 240>>>>
            /\ pc' = "tick"]_vars

\* C17 witness: the snake ate an apple lying under its own body and was
\* reset in the same tick, which is about to render
C17_Witness ==
    /\ pc = "draw"
    /\ calls = <<"tick", "handle_keys", "move", "eat_check", "randomize_position",
                 "collision_check", "reset">>
    /\ length = 1
    /\ positions = <<<<320, 240>>>>

\* the distance of a and b around a ring of n pixels is one cell
RingNeighbours(a, b, n) == (a - b) % n = 20 \/ (b - a) % n = 20

\* C18: consecutive segments are neighbouring cells under wraparound: one
\* cell (20 px, modulo 640 or 480) apart in exactly one coordinate, equal
\* in the other; every coordinate is a multiple of 20.
C18_Adjacent ==
    /\ \A i \in 1..Len(positions) :
            positions[i][1] % 20 = 0 /\ positions[i][2] % 20 = 0
    /\ \A i \in 1..(Len(positions) - 1) :
            \/ /\ RingNeighbours(positions[i][1], positions[i + 1][1], 640)
               /\ positions[i][2] = positions[i + 1][2]
            \/ /\ RingNeighbours(positions[i][2], positions[i + 1][2], 480)
               /\ positions[i][1] = positions[i + 1][1]

\* C18 witness: a snake of two segments lies across the right edge, head
\* in column 0 and tail in column 31
C18_Witness ==
    /\ Len(positions) = 2
    /\ positions[1][1] = 0
    /\ positions[2][1] = 620
    /\ pc = "tick"

\* C19: at every tick boundary length - len(positions) is 1 when an apple
\* was eaten in that tick without a reset and 0 otherwise; len(positions)
\* never exceeds length and length >= 1.
C19_LengthLag ==
    pc = "tick" =>
        /\ length - Len(positions) =
              IF "randomize_position" \in Range(calls) /\ "reset" \notin Range(calls)
              THEN 1 ELSE 0
        /\ Len(positions) <= length
        /\ length >= 1

\* C19 witness: a tick has ended in which a snake of three segments ate an
\* apple and was not reset: length is 4
C19_Witness ==
    /\ pc = "tick"
    /\ "randomize_position" \in Range(calls)
    /\ "reset" \notin Range(calls)
    /\ Len(positions) = 3
    /\ length = 4

TypeOK ==
    /\ length \in Nat
    /\ pc \in {"tick", "keys", "move", "eat", "collide", "draw", "exit"}
====
